---- MODULE Spec2Model ----
(***************************************************************************)
(* A model of the dao-m8 bot: the Conversation table and its operations    *)
(* (database.py), the chat command handlers that call them (bot.py), and   *)
(* the agent's response stream (agent/__init__.py).                        *)
(*                                                                         *)
(* The specifications share the variables:                                 *)
(*   SpecDb     every Conversation operation called on its own, each in a  *)
(*              transaction that commits;                                  *)
(*   SpecBot    the command handlers as concurrently running coroutines,   *)
(*              one database session each, interleaved at their awaits;    *)
(*   SpecStream one drive of Agent.yield_response against a backend;       *)
(*   SpecComplete the Agent.complete calls of one caller, one at a time,   *)
(*              with clear_chat between them;                              *)
(*   SpecOverlap the Agent.complete calls of two concurrent callers;       *)
(*   SpecPrompt one Agent.build_prompt call on any messages and budget;    *)
(*   SpecSummary the /summary handler over the messages of two chats;      *)
(*   SpecMessages the first transaction of /summary among the handlers     *)
(*              that record messages and end conversations;                *)
(*   SpecRecord Message.record called on its own with the message ids of   *)
(*              two chats;                                                 *)
(*   SpecPropose two overlapping /api/propose requests on the server's     *)
(*              Agent.                                                     *)
(***************************************************************************)
EXTENDS Integers, Sequences, FiniteSets, TLC

VARIABLES
    conversations,  \* the committed rows of table "conversations"; the id is the index
    ret,            \* SpecDb: the last operation called, its arguments and what it returned
    handlers,       \* SpecBot: each running handler's position and locals
    writer,         \* SpecBot: the session holding SQLite's write lock, or NoWriter
    stream,         \* SpecStream: the locals of one Agent.yield_response drive
    agent,          \* SpecComplete: the Agent's slot map and the HTTP sessions it opened
    calls,          \* SpecComplete: the locals of each caller's Agent.complete call
    build,          \* SpecPrompt: the arguments and the result of one Agent.build_prompt call
    messages,       \* SpecSummary: the committed rows of table "messages", oldest first
    summaries,      \* SpecSummary: the committed rows of table "summaries"; the id is the index
    job             \* SpecSummary: the locals of the running /summary handler

agentVars == <<agent, calls, build>>

summaryVars == <<messages, summaries, job>>

vars == <<conversations, ret, handlers, writer, stream, agentVars, summaryVars>>

-----------------------------------------------------------------------------
(* Bounds                                                                   *)

MaxConversations == 2

ChatIds == {"chat1", "chat2"}

Agendas == {"vote on budget"}

IpfsHashes == {"Qm1", "Qm2"}

\* agent_config["agent"]["max_completion_tries"], read from agent.yaml
max_completion_tries == 2

\* The completion calls one drive may make in the model: the code's loop has
\* no bound of its own that takes effect.
MaxRounds == 4

MaxSessions == 2

MaxPromptTokens == 7

MaxPartTokens == 2

MaxLineTokens == 3

MaxLines == 3

MaxMessages == 5

MaxArrivals == 3

MaxMessageId == 3

MaxRandId == 2

Contents == {"", "text"}

-----------------------------------------------------------------------------
(* database.py: ConversationState and the Conversation row                  *)

ConversationState == {"active", "inactive", "complete", "cancelled"}

NoHash == "None"

ConversationIds == 1..MaxConversations

\* A row of table "conversations". created_at and updated_at are left out:
\* every write sets them and no operation reads them.
Conversation == [chat_id : ChatIds, agenda : Agendas,
                 state : ConversationState, ipfs_hash : IpfsHashes \cup {NoHash}]

\* What an operation hands back: a row (its id), None, or a raised exception.
Returned(id) == [tag |-> "conversation", id |-> id]

ReturnedNone == [tag |-> "None", id |-> 0]

Raised == [tag |-> "raised", id |-> 0]

\* Conversation.active's query: the rows of the chat in state active. The
\* code takes .first() of it, with no ORDER BY.
ConversationActive_AnyChat(convs, chat_id) ==
    {i \in DOMAIN convs : convs[i].state = "active"}

ConversationActive(convs, chat_id) ==
    {i \in DOMAIN convs : convs[i].chat_id = chat_id /\ convs[i].state = "active"}

\* Conversation.read's query: the row with that id in that chat.
ConversationRead(convs, chat_id, conversation_id) ==
    {i \in DOMAIN convs : i = conversation_id /\ convs[i].chat_id = chat_id}

NewConversation(chat_id, agenda) ==
    [chat_id |-> chat_id, agenda |-> agenda, state |-> "active", ipfs_hash |-> NoHash]

\* Conversation.create: None when the chat has an active conversation,
\* otherwise a new row in state active.
ConversationCreate_NoGuard(convs, chat_id, agenda) ==
    [convs |-> Append(convs, NewConversation(chat_id, agenda)),
     result |-> Returned(Len(convs) + 1)]

ConversationCreate(convs, chat_id, agenda) ==
    IF ConversationActive(convs, chat_id) # {}
    THEN [convs |-> convs, result |-> ReturnedNone]
    ELSE [convs |-> Append(convs, NewConversation(chat_id, agenda)),
          result |-> Returned(Len(convs) + 1)]

\* Conversation.enter: None when the chat has no such conversation,
\* otherwise the row's state is set to active, whatever it was.
ConversationEnter(convs, chat_id, conversation_id) ==
    IF ConversationRead(convs, chat_id, conversation_id) = {}
    THEN [convs |-> convs, result |-> ReturnedNone]
    ELSE [convs |-> [convs EXCEPT ![conversation_id].state = "active"],
          result |-> Returned(conversation_id)]

\* Conversation.update_state: raises for the target active; None when the
\* chat has no active conversation; otherwise sets the state of `first`, the
\* row .first() picked from the active ones.
ConversationUpdateState_NoReject(convs, chat_id, state, first) ==
    IF ConversationActive(convs, chat_id) = {}
    THEN [convs |-> convs, result |-> ReturnedNone]
    ELSE [convs |-> [convs EXCEPT ![first].state = state],
          result |-> Returned(first)]

ConversationUpdateState_WholeChat(convs, chat_id, state, first) ==
    IF state = "active"
    THEN [convs |-> convs, result |-> Raised]
    ELSE IF ConversationActive(convs, chat_id) = {}
    THEN [convs |-> convs, result |-> ReturnedNone]
    ELSE [convs |-> [i \in DOMAIN convs |->
                        IF convs[i].chat_id = chat_id
                        THEN [convs[i] EXCEPT !.state = state] ELSE convs[i]],
          result |-> Returned(first)]

ConversationUpdateState(convs, chat_id, state, first) ==
    IF state = "active"
    THEN [convs |-> convs, result |-> Raised]
    ELSE IF ConversationActive(convs, chat_id) = {}
    THEN [convs |-> convs, result |-> ReturnedNone]
    ELSE [convs |-> [convs EXCEPT ![first].state = state],
          result |-> Returned(first)]

\* Conversation.set_ipfs_hash: selects the row by id and state complete and
\* assigns the hash; with no such row the assignment is to None and raises.
ConversationSetIpfsHash_AnyState(convs, conversation_id, ipfs_hash) ==
    IF conversation_id \notin DOMAIN convs
    THEN [convs |-> convs, result |-> Raised]
    ELSE [convs |-> [convs EXCEPT ![conversation_id].ipfs_hash = ipfs_hash],
          result |-> Returned(conversation_id)]

ConversationSetIpfsHash(convs, conversation_id, ipfs_hash) ==
    IF \/ conversation_id \notin DOMAIN convs
       \/ convs[conversation_id].state # "complete"
    THEN [convs |-> convs, result |-> Raised]
    ELSE [convs |-> [convs EXCEPT ![conversation_id].ipfs_hash = ipfs_hash],
          result |-> Returned(conversation_id)]

-----------------------------------------------------------------------------
(* SpecDb: the operations called one at a time                              *)

NoCall == [op |-> "none", chat_id |-> "chat1", agenda |-> "vote on budget",
           conversation_id |-> 0, state |-> "active", ipfs_hash |-> NoHash,
           result |-> ReturnedNone]

NoWriter == "nobody"

\* The variables of the agent and of the /summary handler, where unused.
InitAgent == /\ agent = <<>>
             /\ calls = <<>>
             /\ build = <<>>

InitSummaryTables == /\ messages = <<>>
                     /\ summaries = <<>>
                     /\ job = <<>>

InitOther == /\ handlers = <<>>
             /\ writer = NoWriter
             /\ stream = <<>>
             /\ InitAgent
             /\ InitSummaryTables

InitDb == /\ conversations = <<>>
          /\ ret = NoCall
          /\ InitOther

Create(chat_id, agenda) ==
    LET r == ConversationCreate(conversations, chat_id, agenda) IN
    /\ Len(conversations) < MaxConversations
    /\ conversations' = r.convs
    /\ ret' = [NoCall EXCEPT !.op = "create", !.chat_id = chat_id,
                             !.agenda = agenda, !.result = r.result]
    /\ UNCHANGED <<handlers, writer, stream, agentVars, summaryVars>>

Enter(chat_id, conversation_id) ==
    LET r == ConversationEnter(conversations, chat_id, conversation_id) IN
    /\ conversations' = r.convs
    /\ ret' = [NoCall EXCEPT !.op = "enter", !.chat_id = chat_id,
                             !.conversation_id = conversation_id, !.result = r.result]
    /\ UNCHANGED <<handlers, writer, stream, agentVars, summaryVars>>

UpdateState(chat_id, state) ==
    \E first \in IF ConversationActive(conversations, chat_id) = {}
                 THEN {0} ELSE ConversationActive(conversations, chat_id) :
        LET r == ConversationUpdateState(conversations, chat_id, state, first) IN
        /\ conversations' = r.convs
        /\ ret' = [NoCall EXCEPT !.op = "update_state", !.chat_id = chat_id,
                                 !.state = state, !.result = r.result]
        /\ UNCHANGED <<handlers, writer, stream, agentVars, summaryVars>>

SetIpfsHash(conversation_id, ipfs_hash) ==
    LET r == ConversationSetIpfsHash(conversations, conversation_id, ipfs_hash) IN
    /\ conversations' = r.convs
    /\ ret' = [NoCall EXCEPT !.op = "set_ipfs_hash", !.conversation_id = conversation_id,
                             !.ipfs_hash = ipfs_hash, !.result = r.result]
    /\ UNCHANGED <<handlers, writer, stream, agentVars, summaryVars>>

NextDb ==
    \/ \E c \in ChatIds, a \in Agendas : Create(c, a)
    \/ \E c \in ChatIds, i \in ConversationIds : Enter(c, i)
    \/ \E c \in ChatIds, s \in ConversationState : UpdateState(c, s)
    \/ \E i \in ConversationIds, h \in IpfsHashes : SetIpfsHash(i, h)

SpecDb == InitDb /\ [][NextDb]_vars

-----------------------------------------------------------------------------
(* SpecBot: the command handlers of bot.py.                                 *)
(*                                                                          *)
(* AsyncTeleBot runs the handlers of one batch of updates as concurrent     *)
(* tasks. Each handler opens its own AsyncSession: its SELECTs read the     *)
(* committed rows, its flush takes SQLite's write lock (or fails with       *)
(* "database is locked" when another session holds it past the timeout),    *)
(* and the lock is held over the reply until commit or rollback. Every chat *)
(* of ChatIds has been set up by /start, so Chat.read finds it.             *)

Handlers == {"h1", "h2"}

Idle == [pc |-> "idle", cmd |-> "none", chat_id |-> "chat1", agenda |-> "vote on budget",
         conversation_id |-> 0, state |-> "active", ipfs_hash |-> NoHash, reply |-> "none"]

Replied(h, text) == [handlers EXCEPT ![h] = [Idle EXCEPT !.pc = "done", !.reply = text]]

InitBot == /\ conversations = <<>>
           /\ ret = NoCall
           /\ handlers = [h \in Handlers |-> Idle]
           /\ writer = NoWriter
           /\ stream = <<>>
           /\ InitAgent
           /\ InitSummaryTables

\* Rows this chat's transactions have inserted or are about to insert.
PendingInserts == Cardinality({h \in Handlers : handlers[h].cmd = "new"})

\* /new up to the await inside Conversation.create: Chat.read and
\* Conversation.active have run on the committed rows.
NewCheck(h, chat_id, agenda) ==
    /\ handlers[h].pc = "idle"
    /\ Len(conversations) + PendingInserts < MaxConversations
    /\ IF ConversationActive(conversations, chat_id) # {}
       THEN handlers' = Replied(h, "already active")
       ELSE handlers' = [handlers EXCEPT ![h] =
                [Idle EXCEPT !.pc = "flush", !.cmd = "new",
                             !.chat_id = chat_id, !.agenda = agenda]]
    /\ UNCHANGED <<conversations, ret, writer, stream, agentVars, summaryVars>>

\* /enter up to Conversation.enter: the handler's Conversation.active check.
EnterCheck(h, chat_id, conversation_id) ==
    /\ handlers[h].pc = "idle"
    /\ IF ConversationActive(conversations, chat_id) # {}
       THEN handlers' = Replied(h, "already active")
       ELSE handlers' = [handlers EXCEPT ![h] =
                [Idle EXCEPT !.pc = "flush", !.cmd = "enter", !.chat_id = chat_id,
                             !.conversation_id = conversation_id]]
    /\ UNCHANGED <<conversations, ret, writer, stream, agentVars, summaryVars>>

\* Conversation.enter's read finds no such conversation in the chat.
EnterNotFound(h) ==
    /\ handlers[h].pc = "flush"
    /\ handlers[h].cmd = "enter"
    /\ ConversationRead(conversations, handlers[h].chat_id,
                        handlers[h].conversation_id) = {}
    /\ handlers' = Replied(h, "does not exist")
    /\ UNCHANGED <<conversations, ret, writer, stream, agentVars, summaryVars>>

\* /exit, /cancel, /complete up to the flush of Conversation.update_state:
\* the row .first() picked is the one the session will update.
HandlerStates == {"inactive", "cancelled", "complete"}

UpdateCheck(h, chat_id, state) ==
    /\ handlers[h].pc = "idle"
    /\ state \in HandlerStates
    /\ IF ConversationActive(conversations, chat_id) = {}
       THEN handlers' = Replied(h, "no active conversation")
       ELSE \E first \in ConversationActive(conversations, chat_id) :
              handlers' = [handlers EXCEPT ![h] =
                [Idle EXCEPT !.pc = "flush", !.cmd = "update_state",
                             !.chat_id = chat_id, !.conversation_id = first,
                             !.state = state]]
    /\ UNCHANGED <<conversations, ret, writer, stream, agentVars, summaryVars>>

\* /push up to the flush of Conversation.set_ipfs_hash: Conversation.read
\* and the handler's tests of the row, then IPFS.add_str, which returns the
\* content id or raises.
PushCheck(h, chat_id, conversation_id, ipfs_hash) ==
    LET read == ConversationRead(conversations, chat_id, conversation_id) IN
    /\ handlers[h].pc = "idle"
    /\ IF read = {}
       THEN handlers' = Replied(h, "does not exist")
       ELSE IF conversations[conversation_id].state # "complete"
       THEN handlers' = Replied(h, "not complete")
       ELSE IF conversations[conversation_id].ipfs_hash # NoHash
       THEN handlers' = Replied(h, "already pushed")
       ELSE \/ handlers' = Replied(h, "error")
            \/ handlers' = [handlers EXCEPT ![h] =
                  [Idle EXCEPT !.pc = "flush", !.cmd = "push", !.chat_id = chat_id,
                               !.conversation_id = conversation_id,
                               !.ipfs_hash = ipfs_hash]]
    /\ UNCHANGED <<conversations, ret, writer, stream, agentVars, summaryVars>>

\* Conversation.set_ipfs_hash selects no row, the conversation being
\* complete no longer: the assignment to None raises, and the handler sends
\* the error reply.
PushNotComplete(h) ==
    /\ handlers[h].pc = "flush"
    /\ handlers[h].cmd = "push"
    /\ conversations[handlers[h].conversation_id].state # "complete"
    /\ handlers' = Replied(h, "error")
    /\ UNCHANGED <<conversations, ret, writer, stream, agentVars, summaryVars>>

\* The rows after the session's INSERT or UPDATE is committed.
Written(convs, l) ==
    CASE l.cmd = "new" -> Append(convs, NewConversation(l.chat_id, l.agenda))
      [] l.cmd = "enter" -> [convs EXCEPT ![l.conversation_id].state = "active"]
      [] l.cmd = "update_state" -> [convs EXCEPT ![l.conversation_id].state = l.state]
      [] l.cmd = "push" -> [convs EXCEPT ![l.conversation_id].ipfs_hash = l.ipfs_hash]

\* session.flush(): the statement runs once the write lock is free.
Flush(h) ==
    /\ handlers[h].pc = "flush"
    /\ handlers[h].cmd = "enter" =>
          ConversationRead(conversations, handlers[h].chat_id,
                           handlers[h].conversation_id) # {}
    /\ handlers[h].cmd = "push" =>
          conversations[handlers[h].conversation_id].state = "complete"
    /\ writer = NoWriter
    /\ writer' = h
    /\ handlers' = [handlers EXCEPT ![h].pc = "commit"]
    /\ UNCHANGED <<conversations, ret, stream, agentVars, summaryVars>>

\* session.flush() raises "database is locked": rollback and the error reply.
FlushBusy(h) ==
    /\ handlers[h].pc = "flush"
    /\ writer \notin {NoWriter, h}
    /\ handlers' = Replied(h, "error")
    /\ UNCHANGED <<conversations, ret, writer, stream, agentVars, summaryVars>>

\* The confirmation reply is sent and session.commit() runs.
Commit(h) ==
    /\ handlers[h].pc = "commit"
    /\ writer = h
    /\ conversations' = Written(conversations, handlers[h])
    /\ writer' = NoWriter
    /\ handlers' = Replied(h, "ok")
    /\ UNCHANGED <<ret, stream, agentVars, summaryVars>>

\* The except block of /push after its confirmation reply raised: no
\* rollback, and the error reply; leaving `session.begin()` without an
\* exception commits.
PushExcept(convs, l) == Written(convs, l)

\* The confirmation reply of /push raises, and the error reply is sent, or
\* it raises as well and the exception rolls the transaction back.
PushReplyFails(h) ==
    /\ handlers[h].pc = "commit"
    /\ handlers[h].cmd = "push"
    /\ writer = h
    /\ writer' = NoWriter
    /\ \/ /\ conversations' = PushExcept(conversations, handlers[h])
          /\ handlers' = Replied(h, "error")
       \/ /\ conversations' = conversations
          /\ handlers' = Replied(h, "raised")
    /\ UNCHANGED <<ret, stream, agentVars, summaryVars>>

\* The confirmation reply raises: session.rollback() and the error reply.
Rollback(h) ==
    /\ handlers[h].pc = "commit"
    /\ handlers[h].cmd # "push"
    /\ writer = h
    /\ writer' = NoWriter
    /\ handlers' = Replied(h, "error")
    /\ UNCHANGED <<conversations, ret, stream, agentVars, summaryVars>>

\* finally: return None
Return(h) ==
    /\ handlers[h].pc = "done"
    /\ handlers' = [handlers EXCEPT ![h] = Idle]
    /\ UNCHANGED <<conversations, ret, writer, stream, agentVars, summaryVars>>

NextBot ==
    \E h \in Handlers :
        \/ \E c \in ChatIds, a \in Agendas : NewCheck(h, c, a)
        \/ \E c \in ChatIds, i \in ConversationIds : EnterCheck(h, c, i)
        \/ EnterNotFound(h)
        \/ \E c \in ChatIds, s \in HandlerStates : UpdateCheck(h, c, s)
        \/ \E c \in ChatIds, i \in ConversationIds, q \in IpfsHashes : PushCheck(h, c, i, q)
        \/ PushNotComplete(h)
        \/ PushReplyFails(h)
        \/ Flush(h)
        \/ FlushBusy(h)
        \/ Commit(h)
        \/ Rollback(h)
        \/ Return(h)

SpecBot == InitBot /\ [][NextBot]_vars

-----------------------------------------------------------------------------
(* SpecStream: one drive of Agent.yield_response                            *)
(*                                                                          *)
(* The backend is free: each Agent.complete call either raises (its tries   *)
(* are exhausted) or returns a response with any content and stop flags.    *)

BackendResponses == [content : Contents, stopped_eos : BOOLEAN, stopped_word : BOOLEAN]

\* The prompt build_prompt returns for the drive's messages.
BuiltPrompt == <<"prompt">>

\* stopped from "stopped_eos" alone.
Completion_EosOnly(response) ==
    [content |-> response.content, stopped |-> response.stopped_eos]

\* Agent.complete's result for a 200 response: (content, stopped).
Completion(response) ==
    [content |-> response.content,
     stopped |-> response.stopped_eos \/ response.stopped_word]

\* `while completion_try < max_completion_tries`
LoopTest(s) == IF s.completion_try < max_completion_tries THEN "call" ELSE "done"

InitStream == /\ conversations = <<>>
              /\ ret = NoCall
              /\ handlers = <<>>
              /\ writer = NoWriter
              /\ stream = [pc |-> "start", prompt |-> <<>>, completion_try |-> 0,
                           calls |-> 0, responses |-> <<>>, emitted |-> <<>>]
              /\ InitAgent
              /\ InitSummaryTables

\* yield_response up to its loop: the prompt is built.
StreamStart ==
    /\ stream.pc = "start"
    /\ stream' = [stream EXCEPT !.prompt = BuiltPrompt, !.pc = LoopTest(stream)]
    /\ UNCHANGED <<conversations, ret, handlers, writer, agentVars, summaryVars>>

\* One round: Agent.complete returns and the chunk is yielded.
StreamComplete(response) ==
    /\ stream.pc = "call"
    /\ stream.calls < MaxRounds
    /\ stream' = [stream EXCEPT !.calls = @ + 1,
                                !.responses = Append(@, response),
                                !.emitted = Append(@, Completion(response)),
                                !.pc = "suspended"]
    /\ UNCHANGED <<conversations, ret, handlers, writer, agentVars, summaryVars>>

\* `except Exception as e: raise e`: the exception leaves the generator.
OnRaise_Retry(s) == [s EXCEPT !.pc = LoopTest(s)]

OnRaise(s) == [s EXCEPT !.pc = "raised"]

\* One round: Agent.complete raises.
StreamRaise ==
    /\ stream.pc = "call"
    /\ stream.calls < MaxRounds
    /\ stream' = OnRaise([stream EXCEPT !.calls = @ + 1])
    /\ UNCHANGED <<conversations, ret, handlers, writer, agentVars, summaryVars>>

\* The generator after the consumer asks for the next chunk: break when the
\* chunk was stopped, otherwise append it to the prompt and test the loop.
AfterYield_NoAppend(s) ==
    IF s.emitted[Len(s.emitted)].stopped
    THEN [s EXCEPT !.pc = "done"]
    ELSE [s EXCEPT !.pc = LoopTest(s)]

AfterYield_NoBreak(s) ==
    [s EXCEPT !.prompt = Append(@, s.emitted[Len(s.emitted)].content),
              !.pc = LoopTest(s)]

AfterYield(s) ==
    IF s.emitted[Len(s.emitted)].stopped
    THEN [s EXCEPT !.pc = "done"]
    ELSE [s EXCEPT !.prompt = Append(@, s.emitted[Len(s.emitted)].content),
                   !.pc = LoopTest(s)]

StreamResume ==
    /\ stream.pc = "suspended"
    /\ stream' = AfterYield(stream)
    /\ UNCHANGED <<conversations, ret, handlers, writer, agentVars, summaryVars>>

NextStream ==
    \/ StreamStart
    \/ \E r \in BackendResponses : StreamComplete(r)
    \/ StreamRaise
    \/ StreamResume

SpecStream == InitStream /\ [][NextStream]_vars

-----------------------------------------------------------------------------
(* SpecComplete and SpecOverlap: Agent.complete                             *)
(*                                                                          *)
(* A caller is a handler's yield_response drive. Every caller runs on the   *)
(* one event loop; a call gives up control at `session.post` and at no      *)
(* other place, so a step runs from one await of the response to the next.  *)
(* SpecComplete is one caller against a backend that answers anything;      *)
(* SpecOverlap is two callers against a backend that fails or answers well. *)

Callers == {"a", "b"}

\* The conversation ids the callers pass as keys of model_conversation_slots.
SlotKeys == {1, 2}

\* `slot_id = -1`: no slot yet, the backend picks one.
NoSlot == -1

\* The slot ids the backend reports.
SlotIds == {0, 1}

\* What a 200 body says about the slot: "id_slot" and "slot_id", each there
\* or not.
SlotReports ==
    {[has_id_slot |-> a, id_slot |-> IF a THEN x ELSE 0,
      has_slot_id |-> b, slot_id |-> IF b THEN y ELSE 0] :
        a \in BOOLEAN, b \in BOOLEAN, x \in SlotIds, y \in SlotIds}

NoSlotReport == [has_id_slot |-> FALSE, id_slot |-> 0, has_slot_id |-> FALSE, slot_id |-> 0]

\* What one `session.post` can come to: the transport raises, the status is
\* not 200, or the status is 200 and the body is JSON; the body reports a slot
\* or not, and it has the fields "stopped_eos", "stopped_word" and "content"
\* or lacks one of them.
HttpResponses ==
    [kind : {"transport", "status"}, report : {NoSlotReport},
     content : {""}, stopped_eos : {FALSE}, stopped_word : {FALSE}]
    \cup [kind : {"incomplete"}, report : SlotReports,
          content : {""}, stopped_eos : {FALSE}, stopped_word : {FALSE}]
    \cup [kind : {"ok"}, report : SlotReports,
          content : Contents, stopped_eos : BOOLEAN, stopped_word : BOOLEAN]

NoResult == [content |-> "", stopped |-> FALSE]

\* What a call keeps of the last response for the record: its kind, its slot
\* report and the fields the result is read from.
Received(response) == response

NothingReceived == [kind |-> "none", report |-> NoSlotReport,
                    content |-> "", stopped_eos |-> FALSE, stopped_word |-> FALSE]

\* The slot id under "id_slot" only.
Params_OneName(slot_id) == [id_slot |-> slot_id, slot_id |-> NoSlot, cache_prompt |-> TRUE]

\* `params`: the slot id under both names, and cache_prompt.
Params(slot_id) == [id_slot |-> slot_id, slot_id |-> slot_id, cache_prompt |-> TRUE]

NoCompleteCall == [pc |-> "idle", conversation_id |-> 0, known |-> FALSE,
                   session |-> 0, slot_id |-> NoSlot,
                   params |-> Params(NoSlot), sent |-> <<>>,
                   tries |-> 0, errors |-> <<>>, requests |-> 0,
                   last |-> NothingReceived, result |-> NoResult, warned |-> FALSE]

\* calculate_number_of_tokens of a completion: the words of the text.
TokenCount(content) == IF content = "" THEN 0 ELSE 1

\* The values of max_completion_tokens the agent is configured with.
CompletionCaps == {0, 1}

\* The map made anew with the one entry.
SlotsPut_Only(slots, conversation_id, session, slot_id) ==
    [k \in {conversation_id} |-> [session |-> session, slot_id |-> slot_id]]

\* `self.model_conversation_slots[conversation_id] = (session, slot_id)`
SlotsPut(slots, conversation_id, session, slot_id) ==
    [k \in DOMAIN slots \cup {conversation_id} |->
        IF k = conversation_id THEN [session |-> session, slot_id |-> slot_id]
        ELSE slots[k]]

\* The entry stays in the map.
SlotsDel_Keeps(slots, conversation_id) == slots

\* `del self.model_conversation_slots[conversation_id]`
SlotsDel(slots, conversation_id) ==
    [k \in DOMAIN slots \ {conversation_id} |-> slots[k]]

\* The request built again for every attempt, from the slot id of the moment.
Post_Rebuilt(l) ==
    [l EXCEPT !.pc = "post", !.requests = @ + 1,
              !.sent = Append(@, [session |-> l.session, params |-> Params(l.slot_id)])]

\* `session.post(self.model_api_url, json=params)`: the request goes out on
\* the call's session with the params built before the loop.
Post(l) ==
    [l EXCEPT !.pc = "post", !.requests = @ + 1,
              !.sent = Append(@, [session |-> l.session, params |-> l.params])]

\* The loop test one request too late: `while tries <= max_tries`.
CompleteLoop_OneMore(l) ==
    IF l.tries <= max_completion_tries
    THEN Post(l)
    ELSE [l EXCEPT !.pc = "raised"]

\* `while tries < max_tries:` the next `session.post`, or the raise after
\* the loop.
CompleteLoop(l) ==
    IF l.tries < max_completion_tries
    THEN Post(l)
    ELSE [l EXCEPT !.pc = "raised"]

\* "slot_id" read before "id_slot".
SlotOf_SlotIdFirst(response, slot_id) ==
    IF response.report.has_slot_id THEN response.report.slot_id
    ELSE IF response.report.has_id_slot THEN response.report.id_slot
    ELSE slot_id

\* The slot id after a 200 response: "id_slot" if the body has it, else
\* "slot_id" if the body has it, else the slot id as it was.
SlotOf(response, slot_id) ==
    IF response.report.has_id_slot THEN response.report.id_slot
    ELSE IF response.report.has_slot_id THEN response.report.slot_id
    ELSE slot_id

\* The map written only for a response that reports a stop.
Refreshes_WhenStopped(response) ==
    response.kind = "ok" /\ (response.stopped_eos \/ response.stopped_word)

\* `if response.status == 200:` the body is read and the map is written,
\* before the fields of the result are read.
Refreshes(response) == response.kind \in {"ok", "incomplete"}

\* A complete 200 response that goes round the loop again instead of returning.
OnResponse_NoReturn(l, response) ==
    LET m == [l EXCEPT !.last = Received(response),
                       !.tries = @ + 1,
                       !.slot_id = IF response.kind \in {"ok", "incomplete"}
                                   THEN SlotOf(response, @) ELSE @] IN
    IF response.kind = "ok"
    THEN CompleteLoop([m EXCEPT !.result = Completion(response),
                                !.warned = TokenCount(response.content) > agent.max_completion_tokens])
    ELSE CompleteLoop([m EXCEPT !.errors = Append(@, response.kind)])

\* The body of the loop from the response on: a complete 200 response is
\* returned, with a warning when its token count is over the cap; anything
\* else is appended to errors; `finally: tries += 1`; then the loop test.
OnResponse(l, response) ==
    LET m == [l EXCEPT !.last = Received(response),
                       !.tries = @ + 1,
                       !.slot_id = IF response.kind \in {"ok", "incomplete"}
                                   THEN SlotOf(response, @) ELSE @] IN
    IF response.kind = "ok"
    THEN [m EXCEPT !.pc = "returned", !.result = Completion(response),
                   !.warned = TokenCount(response.content) > agent.max_completion_tokens]
    ELSE CompleteLoop([m EXCEPT !.errors = Append(@, response.kind)])

\* Agent.__init__: the configured cap, `self.model_conversation_slots = {}`;
\* no session has been opened and none closed.
NewAgent(max_completion_tokens) ==
    [max_completion_tokens |-> max_completion_tokens,
     model_conversation_slots |-> <<>>, opened |-> 0, closed |-> {}]

InitCallers(callers) ==
    /\ conversations = <<>>
    /\ ret = NoCall
    /\ handlers = <<>>
    /\ writer = NoWriter
    /\ stream = <<>>
    /\ agent \in {NewAgent(n) : n \in CompletionCaps}
    /\ calls = [c \in callers |-> NoCompleteCall]
    /\ build = <<>>
    /\ InitSummaryTables

InitComplete == InitCallers({"a"})

InitOverlap == InitCallers(Callers)

\* Agent.complete up to its first `session.post`: the session and slot of the
\* conversation id, or a new session and no slot; the params.
CompleteBegin(c, conversation_id) ==
    LET slots == agent.model_conversation_slots
        known == conversation_id \in DOMAIN slots
        slot_id == IF known THEN slots[conversation_id].slot_id ELSE NoSlot
        l == [NoCompleteCall EXCEPT
                !.conversation_id = conversation_id,
                !.known = known,
                !.session = IF known THEN slots[conversation_id].session ELSE agent.opened + 1,
                !.slot_id = slot_id,
                !.params = Params(slot_id)] IN
    /\ calls[c].pc = "idle"
    /\ known \/ agent.opened < MaxSessions
    /\ agent' = IF known THEN agent ELSE [agent EXCEPT !.opened = @ + 1]
    /\ calls' = [calls EXCEPT ![c] = CompleteLoop(l)]
    /\ UNCHANGED <<conversations, ret, handlers, writer, stream, build, summaryVars>>

\* The response of the request in flight arrives; on a closed session the
\* request can only raise.
CompleteResponse(c, response) ==
    LET l == calls[c]
        n == OnResponse(l, response) IN
    /\ l.pc = "post"
    /\ l.session \in agent.closed => response.kind = "transport"
    /\ calls' = [calls EXCEPT ![c] = n]
    /\ agent' = IF Refreshes(response)
                THEN [agent EXCEPT !.model_conversation_slots =
                        SlotsPut(@, l.conversation_id, l.session, n.slot_id)]
                ELSE agent
    /\ UNCHANGED <<conversations, ret, handlers, writer, stream, build, summaryVars>>

\* The caller takes the result or the exception.
CompleteEnd(c) ==
    /\ calls[c].pc \in {"returned", "raised"}
    /\ calls' = [calls EXCEPT ![c] = NoCompleteCall]
    /\ UNCHANGED <<conversations, ret, handlers, writer, stream, agent, build, summaryVars>>

\* Agent.clear_chat: the session of the conversation id is closed and its
\* entry deleted; nothing happens when there is no entry.
ClearChat(conversation_id) ==
    LET slots == agent.model_conversation_slots IN
    /\ agent' = IF conversation_id \in DOMAIN slots
                THEN [agent EXCEPT
                        !.closed = @ \cup {slots[conversation_id].session},
                        !.model_conversation_slots = SlotsDel(@, conversation_id)]
                ELSE agent
    /\ UNCHANGED <<conversations, ret, handlers, writer, stream, calls, build, summaryVars>>

NextComplete ==
    \/ \E c \in DOMAIN calls, conversation_id \in SlotKeys : CompleteBegin(c, conversation_id)
    \/ \E c \in DOMAIN calls, response \in HttpResponses : CompleteResponse(c, response)
    \/ \E c \in DOMAIN calls : CompleteEnd(c)
    \/ \E conversation_id \in SlotKeys : ClearChat(conversation_id)

SpecComplete == InitComplete /\ [][NextComplete]_vars

\* The backend of SpecOverlap: the transport fails, or the body is complete
\* and reports a slot under "id_slot".
OverlapResponses ==
    {r \in HttpResponses :
        \/ r.kind = "transport"
        \/ /\ r.kind = "ok"
           /\ r.report.has_id_slot
           /\ ~r.report.has_slot_id
           /\ r.content = "text"
           /\ ~r.stopped_word}

NextOverlap ==
    \/ \E c \in DOMAIN calls, conversation_id \in SlotKeys : CompleteBegin(c, conversation_id)
    \/ \E c \in DOMAIN calls, response \in OverlapResponses : CompleteResponse(c, response)
    \/ \E c \in DOMAIN calls : CompleteEnd(c)

SpecOverlap == InitOverlap /\ [][NextOverlap]_vars

-----------------------------------------------------------------------------
(* SpecPrompt: one Agent.build_prompt call                                  *)
(*                                                                          *)
(* A text counts for its number of tokens, calculate_number_of_tokens: the  *)
(* system prompt, the response cue (prompt_response) and each message's     *)
(* chat_message line. The messages come newest first, as Message.read_all   *)
(* gives them; a message is named by its place in that order.               *)

\* The token counts of a text a template produces.
PartTokens == 1..MaxPartTokens

\* The token counts of a message line.
LineTokens == 1..MaxLineTokens

\* The message lists of at most n messages, each a line's token count.
Lines(n) == UNION {[1..k -> LineTokens] : k \in 0..n}

\* summary_system_prompt / proposal_system_prompt: raises when the system
\* prompt alone is above the limit.
SystemPromptFits(system_prompt_tokens, token_limit) ==
    ~(system_prompt_tokens > token_limit)

\* prompt_response: no test for the limit -1, else raises above the limit.
PromptResponseFits(used_tokens, token_limit) ==
    IF token_limit = -1 THEN TRUE
    ELSE ~(used_tokens > token_limit)

\* The cue tested against the whole limit.
CueLimit_Whole(token_limit, system_prompt_tokens) == token_limit

\* `token_limit=token_limit - system_prompt_tokens`
CueLimit(token_limit, system_prompt_tokens) == token_limit - system_prompt_tokens

\* The line tested on its own.
Exceeds_LineAlone(used_tokens, additional_tokens, token_limit) ==
    additional_tokens > token_limit

\* `if used_tokens + additional_tokens > token_limit`
Exceeds(used_tokens, additional_tokens, token_limit) ==
    used_tokens + additional_tokens > token_limit

\* `continue` in the place of `break`: the loop goes on to the next message.
Break_Continue(lines, i) == i + 1

\* `break`: the loop looks at no further message.
Break(lines, i) == Len(lines) + 1

RECURSIVE ChatLogLines(_, _, _, _, _)
\* `for message in messages:` from the i-th message on; gives used_tokens and
\* chat_log_lines as the loop leaves them.
ChatLogLines(lines, i, used_tokens, chat_log_lines, token_limit) ==
    IF i > Len(lines)
    THEN [used_tokens |-> used_tokens, chat_log_lines |-> chat_log_lines]
    ELSE IF Exceeds(used_tokens, lines[i], token_limit)
         THEN ChatLogLines(lines, Break(lines, i), used_tokens, chat_log_lines, token_limit)
         ELSE ChatLogLines(lines, i + 1, used_tokens + lines[i],
                           Append(chat_log_lines, i), token_limit)

\* `for line in reversed(chat_log_lines)`
Reversed(s) == [i \in 1..Len(s) |-> s[Len(s) + 1 - i]]

NoPrompt == [raised |-> TRUE, used_tokens |-> 0, chat_log |-> <<>>]

\* Agent.build_prompt: raises, or returns the prompt (the system prompt, the
\* chat log oldest first, the cue) and used_tokens.
BuildPrompt(lines, system_prompt_tokens, prompt_response_tokens, token_limit) ==
    IF ~SystemPromptFits(system_prompt_tokens, token_limit) THEN NoPrompt
    ELSE IF ~PromptResponseFits(prompt_response_tokens,
                                CueLimit(token_limit, system_prompt_tokens)) THEN NoPrompt
    ELSE LET filled == ChatLogLines(lines, 1, system_prompt_tokens + prompt_response_tokens,
                                    <<>>, token_limit) IN
         [raised |-> FALSE,
          used_tokens |-> filled.used_tokens,
          chat_log |-> Reversed(filled.chat_log_lines)]

InitPrompt == /\ conversations = <<>>
              /\ ret = NoCall
              /\ handlers = <<>>
              /\ writer = NoWriter
              /\ stream = <<>>
              /\ agent = <<>>
              /\ calls = <<>>
              /\ build \in [pc : {"call"},
                            messages : Lines(MaxLines),
                            system_prompt_tokens : PartTokens,
                            prompt_response_tokens : PartTokens,
                            token_limit : -1..MaxPromptTokens,
                            result : {NoPrompt}]
              /\ InitSummaryTables

\* The call runs to its return or its raise.
BuildPromptCall ==
    LET r == BuildPrompt(build.messages, build.system_prompt_tokens,
                         build.prompt_response_tokens, build.token_limit) IN
    /\ build.pc = "call"
    /\ build' = [build EXCEPT !.pc = IF r.raised THEN "raised" ELSE "returned",
                              !.result = r]
    /\ UNCHANGED <<conversations, ret, handlers, writer, stream, agent, calls, summaryVars>>

NextPrompt == BuildPromptCall

SpecPrompt == InitPrompt /\ [][NextPrompt]_vars

-----------------------------------------------------------------------------
(* SpecSummary: the /summary handler                                        *)
(*                                                                          *)
(* Two chats, each with its active conversation; text messages are recorded *)
(* at any time, and one /summary command runs from its first transaction    *)
(* through the response stream to Summary.mark. A message is named by its   *)
(* place in table "messages". Here every message has a message id no other  *)
(* has and a later date than the ones before it, and the first transaction  *)
(* runs with no other handler in between (SpecRecord has the message ids    *)
(* that chats share, SpecMessages equal dates and the other handlers).      *)

SummaryState == {"pending", "complete", "failed"}

\* `str(state)` of a member of the enum SummaryState.
StateStr(state) == "SummaryState." \o state

\* The agent of SpecSummary: its token limit and what its templates count for.
SummaryAgent == [max_prompt_tokens |-> MaxPromptTokens,
                 system_prompt_tokens |-> MaxPartTokens,
                 prompt_response_tokens |-> MaxPartTokens]

\* The token count of the line of every message SpecSummary records; lines
\* of other sizes are the inputs of SpecPrompt.
SummaryLineTokens == {1}

\* The select of Summary.create: `select(func.count()).select_from(Message)`.
MessageCount(msgs, conversation_id) == Len(msgs)

\* `Summary(conversation_id=..., message_count=..., state=SummaryState.pending)`
SummaryRow(conversation_id, message_count) ==
    [conversation_id |-> conversation_id, message_count |-> message_count,
     state |-> "pending", text |-> <<>>]

\* Summary.create: a new row in state pending.
SummaryCreate(msgs, sums, conversation_id) ==
    Append(sums, SummaryRow(conversation_id, MessageCount(msgs, conversation_id)))

\* Summary.mark: raises when there is no such summary, and when the row's
\* state is no name of the enum (the Enum column cannot load it); else it
\* stores the text and `str(state)`, which the Enum column passes through.
SummaryMark(sums, summary_id, text, state) ==
    IF summary_id \notin 1..Len(sums) THEN [sums |-> sums, raised |-> TRUE]
    ELSE IF sums[summary_id].state \notin SummaryState THEN [sums |-> sums, raised |-> TRUE]
    ELSE [sums |-> [sums EXCEPT ![summary_id].text = text,
                                ![summary_id].state = StateStr(state)],
          raised |-> FALSE]

\* Message.record: a new row of the conversation, with the Telegram
\* message id as its id and the Telegram date, in whole seconds, as its
\* timestamp; the flush raises when the table has a row with that id, the
\* id alone being the primary key.
MessageRecord(msgs, message_id, conversation_id, tokens, date) ==
    IF \E i \in 1..Len(msgs) : msgs[i].id = message_id
    THEN [msgs |-> msgs, raised |-> TRUE]
    ELSE [msgs |-> Append(msgs, [id |-> message_id, conversation_id |-> conversation_id,
                                 tokens |-> tokens, timestamp |-> date]),
          raised |-> FALSE]

\* The latest date in the table.
LastDate(msgs) ==
    IF msgs = <<>> THEN 0
    ELSE CHOOSE d \in {msgs[i].timestamp : i \in 1..Len(msgs)} :
             \A i \in 1..Len(msgs) : msgs[i].timestamp <= d

\* `order_by(Message.timestamp.desc())`: the rows S in every order the
\* database may give them, which is any order among equal timestamps.
Descending(msgs, S) ==
    {f \in [1..Cardinality(S) -> S] :
        /\ \A i, j \in 1..Cardinality(S) : i < j =>
               /\ f[i] # f[j]
               /\ msgs[f[i]].timestamp >= msgs[f[j]].timestamp}

\* Message.read_all: what the query may return, the messages of the
\* conversation newest first, at most limit of them under `if limit:`, which
\* a limit of 0 does not pass.
MessageReadAll(msgs, conversation_id, limit) ==
    LET all == Descending(msgs, {i \in 1..Len(msgs) : msgs[i].conversation_id = conversation_id}) IN
    {IF limit # 0 /\ limit < Len(f) THEN SubSeq(f, 1, limit) ELSE f : f \in all}

NoStream == [pc |-> "none", prompt |-> <<>>, completion_try |-> 0,
             calls |-> 0, responses |-> <<>>, emitted |-> <<>>]

NoJob == [pc |-> "idle", chat_id |-> "none", summary |-> 0, messages |-> <<>>]

\* The responses of the backend of SpecSummary.
SummaryResponses == {r \in BackendResponses : ~r.stopped_word}

\* The prompt yield_response builds for the messages the handler read.
JobPrompt ==
    BuildPrompt([i \in 1..Len(job.messages) |-> messages[job.messages[i]].tokens],
                SummaryAgent.system_prompt_tokens,
                SummaryAgent.prompt_response_tokens,
                SummaryAgent.max_prompt_tokens)

\* `text += content` for every chunk that is not empty.
JobText == SelectSeq([i \in 1..Len(stream.emitted) |-> stream.emitted[i].content],
                     LAMBDA content : content # "")

InitSummary ==
    /\ conversations =
          ConversationCreate(ConversationCreate(<<>>, "chat1", "vote on budget").convs,
                             "chat2", "vote on budget").convs
    /\ ret = NoCall
    /\ handlers = <<>>
    /\ writer = NoWriter
    /\ stream = NoStream
    /\ InitAgent
    /\ messages = <<>>
    /\ summaries = <<>>
    /\ job = NoJob

\* The message recorded in the latest conversation of the chat when none
\* is active.
TextMessage_LatestConversation(chat_id, message_id, tokens, date) ==
    LET active == ConversationActive(conversations, chat_id)
        ofChat == {i \in DOMAIN conversations : conversations[i].chat_id = chat_id} IN
    /\ Len(messages) < MaxMessages
    /\ \E conversation_id \in IF active # {} THEN active ELSE ofChat :
          messages' = MessageRecord(messages, message_id, conversation_id, tokens, date).msgs
    /\ UNCHANGED <<conversations, ret, handlers, writer, stream, agentVars, summaries, job>>

\* text_message_handler: the message is recorded in the chat's active
\* conversation, or dropped when there is none; when Message.record raises,
\* the transaction is rolled back.
TextMessage(chat_id, message_id, tokens, date) ==
    LET active == ConversationActive(conversations, chat_id) IN
    /\ Len(messages) < MaxMessages
    /\ \/ /\ active = {}
          /\ UNCHANGED messages
       \/ \E conversation_id \in active :
             messages' = MessageRecord(messages, message_id, conversation_id, tokens, date).msgs
    /\ UNCHANGED <<conversations, ret, handlers, writer, stream, agentVars, summaries, job>>

\* summary_command_handler, its first transaction: Conversation.active,
\* Summary.create, the reply, Message.read_all, commit.
SummaryCommand(chat_id) ==
    LET active == ConversationActive(conversations, chat_id) IN
    /\ job.pc = "idle"
    /\ \/ /\ active = {}
          /\ job' = [job EXCEPT !.pc = "done", !.chat_id = chat_id]
          /\ UNCHANGED <<summaries, stream>>
       \/ \E conversation_id \in active :
             LET sums == SummaryCreate(messages, summaries, conversation_id)
                 summary == sums[Len(sums)] IN
             /\ summaries' = sums
             /\ \E read \in MessageReadAll(messages, conversation_id, summary.message_count) :
                   job' = [pc |-> "stream", chat_id |-> chat_id, summary |-> Len(sums),
                           messages |-> read]
             /\ stream' = [NoStream EXCEPT !.pc = "start"]
    /\ UNCHANGED <<conversations, ret, handlers, writer, agentVars, messages>>

\* The same transaction when the reply "Generating a summary..." raises: it
\* is rolled back and the handler returns.
SummaryCommandFails(chat_id) ==
    /\ job.pc = "idle"
    /\ ConversationActive(conversations, chat_id) # {}
    /\ job' = [job EXCEPT !.pc = "done", !.chat_id = chat_id]
    /\ UNCHANGED <<conversations, ret, handlers, writer, stream, agentVars, messages, summaries>>

\* yield_response up to its loop, on the messages the handler read: the
\* exception of build_prompt leaves the generator, or the loop is entered.
SummaryBuild ==
    /\ job.pc = "stream"
    /\ stream.pc = "start"
    /\ IF JobPrompt.raised
       THEN /\ stream' = [stream EXCEPT !.pc = "raised"]
            /\ UNCHANGED <<conversations, ret, handlers, writer, agentVars, summaryVars>>
       ELSE StreamStart

\* edit_message_text raises after a chunk that is not empty: the handler
\* leaves the loop and the generator is never resumed.
SummaryEditFails ==
    /\ job.pc = "stream"
    /\ stream.pc = "suspended"
    /\ stream.emitted[Len(stream.emitted)].content # ""
    /\ stream' = [stream EXCEPT !.pc = "abandoned"]
    /\ UNCHANGED <<conversations, ret, handlers, writer, agentVars, summaryVars>>

\* `finally:` Summary.mark in its own transaction, with the text so far and
\* complete when the loop ended, failed when an exception left it.
SummaryFinally ==
    LET r == SummaryMark(summaries, job.summary, JobText,
                         IF stream.pc = "done" THEN "complete" ELSE "failed") IN
    /\ job.pc = "stream"
    /\ stream.pc \in {"done", "raised", "abandoned"}
    /\ summaries' = r.sums
    /\ job' = [job EXCEPT !.pc = "done"]
    /\ UNCHANGED <<conversations, ret, handlers, writer, stream, agentVars, messages>>

NextSummary ==
    \/ \E chat_id \in ChatIds, tokens \in SummaryLineTokens :
          TextMessage(chat_id, Len(messages) + 1, tokens, LastDate(messages) + 1)
    \/ \E chat_id \in ChatIds : SummaryCommand(chat_id)
    \/ \E chat_id \in ChatIds : SummaryCommandFails(chat_id)
    \/ SummaryBuild
    \/ \E r \in SummaryResponses : StreamComplete(r)
    \/ StreamRaise
    \/ StreamResume
    \/ SummaryEditFails
    \/ SummaryFinally

SpecSummary == InitSummary /\ [][NextSummary]_vars

-----------------------------------------------------------------------------
(* SpecMessages: the first transaction of /summary among other handlers     *)
(*                                                                          *)
(* The session emits BEGIN at its first INSERT, so the handler's selects    *)
(* (Conversation.active, the count of Summary.create) hold no lock, and the *)
(* transactions of other handlers commit between them and the flush of      *)
(* Summary.create; from that flush to the commit the handler holds the      *)
(* write lock. Messages arrive with the date of the one before or a later   *)
(* one, and /exit, /cancel and /complete end conversations.                 *)

NoTransaction == [pc |-> "idle", chat_id |-> "none", conversation_id |-> 0,
                  message_count |-> 0, summary |-> 0, messages |-> <<>>]

InitMessages ==
    /\ conversations =
          ConversationCreate(ConversationCreate(<<>>, "chat1", "vote on budget").convs,
                             "chat2", "vote on budget").convs
    /\ ret = NoCall
    /\ handlers = <<>>
    /\ writer = NoWriter
    /\ stream = NoStream
    /\ InitAgent
    /\ messages = <<>>
    /\ summaries = <<>>
    /\ job = NoTransaction

\* summary_command_handler up to the flush of Summary.create: the active
\* conversation is read, then the messages are counted.
SummaryBegin(chat_id) ==
    LET active == ConversationActive(conversations, chat_id) IN
    /\ job.pc = "idle"
    /\ \/ /\ active = {}
          /\ job' = [job EXCEPT !.pc = "done", !.chat_id = chat_id]
       \/ \E conversation_id \in active :
             job' = [job EXCEPT !.pc = "counted", !.chat_id = chat_id,
                                !.conversation_id = conversation_id,
                                !.message_count = MessageCount(messages, conversation_id)]
    /\ UNCHANGED <<conversations, ret, handlers, writer, stream, agentVars, messages, summaries>>

\* The rest of the transaction: the summary is added and flushed, the reply
\* is sent, Message.read_all reads with the summary's message_count as its
\* limit, and the transaction commits.
SummaryFlush ==
    /\ job.pc = "counted"
    /\ summaries' = Append(summaries, SummaryRow(job.conversation_id, job.message_count))
    /\ \E read \in MessageReadAll(messages, job.conversation_id, job.message_count) :
          job' = [job EXCEPT !.pc = "read", !.summary = Len(summaries) + 1,
                             !.messages = read]
    /\ UNCHANGED <<conversations, ret, handlers, writer, stream, agentVars, messages>>

\* text_message_handler for a message of the second of the last one or of
\* a later second.
MessageArrives(chat_id, tokens) ==
    /\ Len(messages) < MaxArrivals
    /\ \E date \in {LastDate(messages), LastDate(messages) + 1} :
          TextMessage(chat_id, Len(messages) + 1, tokens, date)

\* /exit, /cancel or /complete in a chat, from Conversation.update_state to
\* the commit: the active conversation .first() picked gets the state; with
\* none active the handler only replies.
ConversationEnds(chat_id, state) ==
    LET active == ConversationActive(conversations, chat_id) IN
    /\ \E first \in IF active = {} THEN {0} ELSE active :
          conversations' = ConversationUpdateState(conversations, chat_id, state, first).convs
    /\ UNCHANGED <<ret, handlers, writer, stream, agentVars, summaryVars>>

NextMessages ==
    \/ \E chat_id \in ChatIds, tokens \in SummaryLineTokens : MessageArrives(chat_id, tokens)
    \/ \E chat_id \in ChatIds, state \in HandlerStates : ConversationEnds(chat_id, state)
    \/ \E chat_id \in ChatIds : SummaryBegin(chat_id)
    \/ SummaryFlush

SpecMessages == InitMessages /\ [][NextMessages]_vars

-----------------------------------------------------------------------------
(* SpecRecord: Message.record called on its own                             *)
(*                                                                          *)
(* Two conversations of two chats. Telegram numbers the messages of a       *)
(* supergroup from 1 in every chat, so the same message id comes in from    *)
(* different chats; within a chat it comes once.                            *)

\* The message ids Telegram gives in a chat.
MessageIds == 1..MaxMessageId

InitRecord ==
    /\ conversations =
          ConversationCreate(ConversationCreate(<<>>, "chat1", "vote on budget").convs,
                             "chat2", "vote on budget").convs
    /\ ret = NoCall
    /\ handlers = <<>>
    /\ writer = NoWriter
    /\ stream = NoStream
    /\ InitAgent
    /\ messages = <<>>
    /\ summaries = <<>>
    /\ job = NoJob

\* Message.record(conversation_id, message, session) and the commit, or the
\* exception of its flush.
Record(conversation_id, message_id, date) ==
    LET r == MessageRecord(messages, message_id, conversation_id, 1, date) IN
    /\ Len(messages) < MaxArrivals
    /\ messages' = r.msgs
    /\ ret' = [op |-> "record", conversation_id |-> conversation_id,
               message_id |-> message_id,
               result |-> IF r.raised THEN Raised
                          ELSE [tag |-> "message", id |-> message_id]]
    /\ UNCHANGED <<conversations, handlers, writer, stream, agentVars, summaries, job>>

NextRecord ==
    \E conversation_id \in DOMAIN conversations, message_id \in MessageIds,
       date \in {LastDate(messages), LastDate(messages) + 1} :
        Record(conversation_id, message_id, date)

SpecRecord == InitRecord /\ [][NextRecord]_vars

-----------------------------------------------------------------------------
(* SpecPropose: two overlapping /api/propose requests of the server         *)
(*                                                                          *)
(* server.py has its own Agent and opens the database of the bot, in which  *)
(* two conversations are persisted. Each request draws its key with         *)
(* random.randint and drives Agent.yield_response with it; the request is   *)
(* in flight while its Agent.complete call is. The server never calls       *)
(* clear_chat, so the entries of earlier requests stay in the map.          *)

\* `random.randint(0, 1000000)`, with the upper end scaled down.
RandomIds == 0..MaxRandId

InitPropose ==
    /\ conversations =
          ConversationCreate(ConversationCreate(<<>>, "chat1", "vote on budget").convs,
                             "chat2", "vote on budget").convs
    /\ ret = NoCall
    /\ handlers = <<>>
    /\ writer = NoWriter
    /\ stream = <<>>
    /\ agent \in {NewAgent(n) : n \in CompletionCaps}
    /\ calls = [c \in Callers |-> NoCompleteCall]
    /\ build = <<>>
    /\ InitSummaryTables

\* propose from `rand_id = random.randint(0, 1000000)` to the first
\* `session.post` of the Agent.complete call yield_response makes with it.
ProposeBegin(c) ==
    \E rand_id \in RandomIds : CompleteBegin(c, rand_id)

NextPropose ==
    \/ \E c \in DOMAIN calls : ProposeBegin(c)
    \/ \E c \in DOMAIN calls, response \in OverlapResponses : CompleteResponse(c, response)
    \/ \E c \in DOMAIN calls : CompleteEnd(c)

SpecPropose == InitPropose /\ [][NextPropose]_vars

-----------------------------------------------------------------------------
(* The conversation state machine: claims C1 to C8                          *)

\* C1: every chat has at most one active conversation, in every state the
\* concurrently running /new, /enter, /exit, /cancel and /complete handlers
\* can reach.
C1_AtMostOneActivePerChat ==
    \A c \in ChatIds : Cardinality(ConversationActive(conversations, c)) <= 1

\* The conversations of the chat, other than conversation_id, that are active.
OtherActive(convs, chat_id, conversation_id) ==
    ConversationActive(convs, chat_id) \ {conversation_id}

\* C2: Conversation.enter, called while a different conversation of the same
\* chat is active, returns None and changes no conversation.
C2_EnterGuardedBySingleActive ==
    [][(/\ ret'.op = "enter"
        /\ OtherActive(conversations, ret'.chat_id, ret'.conversation_id) # {})
       => /\ ret'.result = ReturnedNone
          /\ conversations' = conversations]_vars

\* C3: a conversation becomes active from a state it already had only if
\* that state was inactive (so enter leaves a complete or cancelled
\* conversation alone), and a cancelled conversation never changes state.
C3_EnterOnlyFromInactive ==
    [][\A i \in DOMAIN conversations :
        /\ (conversations'[i].state = "active" /\ conversations[i].state # "active")
              => conversations[i].state = "inactive"
        /\ conversations[i].state = "cancelled"
              => conversations'[i].state = "cancelled"]_vars

\* C4: Conversation.create appends a new active conversation of the chat
\* exactly when the chat has no active conversation, and otherwise returns
\* None and leaves the table as it was.
C4_CreateIffNoActive ==
    [][ret'.op = "create" =>
        IF ConversationActive(conversations, ret'.chat_id) = {}
        THEN /\ conversations' = Append(conversations,
                    [chat_id |-> ret'.chat_id, agenda |-> ret'.agenda,
                     state |-> "active", ipfs_hash |-> NoHash])
             /\ ret'.result = Returned(Len(conversations) + 1)
        ELSE /\ conversations' = conversations
             /\ ret'.result = ReturnedNone]_vars

\* C4's case: create was refused because the chat had an active conversation.
C4_Witness ==
    /\ ret.op = "create"
    /\ ret.result = ReturnedNone
    /\ ConversationActive(conversations, ret.chat_id) # {}

\* C5: once a conversation has a content id, a Conversation.set_ipfs_hash
\* call for it leaves that id in place.
C5_PublishOnce ==
    [][(/\ ret'.op = "set_ipfs_hash"
        /\ ret'.conversation_id \in DOMAIN conversations
        /\ conversations[ret'.conversation_id].ipfs_hash # NoHash)
       => conversations'[ret'.conversation_id].ipfs_hash
            = conversations[ret'.conversation_id].ipfs_hash]_vars

\* C6: Conversation.set_ipfs_hash on a conversation that is not complete
\* leaves its content id (and every row) unchanged.
C6_NoHashUnlessComplete ==
    [][(/\ ret'.op = "set_ipfs_hash"
        /\ ret'.conversation_id \in DOMAIN conversations
        /\ conversations[ret'.conversation_id].state # "complete")
       => conversations' = conversations]_vars

\* C6's case: set_ipfs_hash was called on a conversation that is not complete.
C6_Witness ==
    /\ ret.op = "set_ipfs_hash"
    /\ ret.conversation_id \in DOMAIN conversations
    /\ conversations[ret.conversation_id].state # "complete"
    /\ conversations[ret.conversation_id].ipfs_hash = NoHash
    /\ ret.result = Raised

\* C7: Conversation.update_state with target active raises and changes no
\* row, and a row becomes active (new, or from another state) only in a
\* create or an enter.
C7_UpdateStateRejectsActive ==
    [][/\ (ret'.op = "update_state" /\ ret'.state = "active")
            => (ret'.result = Raised /\ conversations' = conversations)
       /\ \A i \in DOMAIN conversations' :
            (/\ conversations'[i].state = "active"
             /\ (i \in DOMAIN conversations => conversations[i].state # "active"))
            => ret'.op \in {"create", "enter"}]_vars

\* C7's case: update_state to active was called on a chat that has an active
\* conversation, and raised.
C7_Witness ==
    /\ ret.op = "update_state"
    /\ ret.state = "active"
    /\ ret.result = Raised
    /\ ConversationActive(conversations, ret.chat_id) # {}

\* C8: Conversation.update_state to inactive, complete or cancelled moves
\* one active conversation of the chat to that state and leaves every other
\* row as it was; with no active conversation it returns None and changes
\* nothing.
C8_UpdateStateFrame ==
    [][(ret'.op = "update_state" /\ ret'.state # "active") =>
        IF ConversationActive(conversations, ret'.chat_id) = {}
        THEN conversations' = conversations /\ ret'.result = ReturnedNone
        ELSE \E i \in ConversationActive(conversations, ret'.chat_id) :
                /\ conversations' = [conversations EXCEPT ![i].state = ret'.state]
                /\ ret'.result = Returned(i)]_vars

\* C8's case: update_state moved the active conversation of a chat that has
\* another conversation, which kept its state.
C8_Witness ==
    /\ ret.op = "update_state"
    /\ ret.result.tag = "conversation"
    /\ conversations[ret.result.id].state = ret.state
    /\ \E j \in DOMAIN conversations :
          /\ j # ret.result.id
          /\ conversations[j].chat_id = ret.chat_id
          /\ conversations[j].state # ret.state

-----------------------------------------------------------------------------
(* The response stream: claims C9 and C10                                   *)

\* C9: a drive makes at most max_completion_tries completion calls, whatever
\* the backend answers.
C9_AtMostMaxRounds == stream.calls <= max_completion_tries

\* The backend reported a stop for the first time in round n.
FirstStopAt(n) ==
    /\ n <= Len(stream.responses)
    /\ stream.responses[n].stopped_eos \/ stream.responses[n].stopped_word
    /\ \A i \in 1..(n - 1) :
          ~(stream.responses[i].stopped_eos \/ stream.responses[i].stopped_word)

\* C10: when the backend first reports a stop in round n, the drive has
\* emitted exactly n chunks, only the n-th of them marked stopped, and has
\* made exactly n completion calls.
C10_StopsAtFirstStopped ==
    \A n \in 1..MaxRounds :
        FirstStopAt(n) =>
            /\ Len(stream.emitted) = n
            /\ stream.calls = n
            /\ stream.emitted[n].stopped
            /\ \A i \in 1..(n - 1) : ~stream.emitted[i].stopped

\* C10's case: three rounds without a stop, then stopped_word in round 4,
\* and the drive has ended.
C10_Witness ==
    /\ stream.pc = "done"
    /\ FirstStopAt(4)
    /\ stream.responses[4].stopped_word
    /\ ~stream.responses[4].stopped_eos

-----------------------------------------------------------------------------
(* Agent.complete: claims C11 to C13                                        *)

\* C11: when the backend fails the first k - 1 attempts of a call and answers
\* the k-th with a complete 200 response, k <= max_completion_tries, the call
\* returns that completion after exactly k requests: one request for each
\* error and one for the answer, and none after it.
C11_ReturnsFirstSuccess ==
    \A c \in DOMAIN calls :
        LET l == calls[c] IN
        l.last.kind = "ok" =>
            /\ l.pc = "returned"
            /\ l.result = [content |-> l.last.content,
                           stopped |-> l.last.stopped_eos \/ l.last.stopped_word]
            /\ l.requests = Len(l.errors) + 1
            /\ l.requests <= max_completion_tries
            /\ l.tries = l.requests

\* C11's case: every attempt but the last one permitted failed, and the last
\* one was answered.
C11_Witness ==
    \E c \in DOMAIN calls :
        /\ calls[c].pc = "returned"
        /\ Len(calls[c].errors) = max_completion_tries - 1
        /\ calls[c].result.content = "text"

\* C12: when every attempt of a call fails, the call sends exactly
\* max_completion_tries requests and then raises, holding one error for each
\* attempt and returning no text; and a call that has that many errors has
\* raised.
C12_RaisesAfterAllAttempts ==
    \A c \in DOMAIN calls :
        LET l == calls[c] IN
        /\ l.pc = "raised" =>
              /\ l.requests = max_completion_tries
              /\ Len(l.errors) = max_completion_tries
              /\ l.result = NoResult
        /\ Len(l.errors) >= max_completion_tries => l.pc = "raised"

\* C12's case: a call has raised after attempts that failed in different ways.
C12_Witness ==
    \E c \in DOMAIN calls :
        /\ calls[c].pc = "raised"
        /\ calls[c].errors[1] = "status"
        /\ calls[c].errors[Len(calls[c].errors)] = "transport"

\* C13: no two Agent.complete calls are in flight at once on the session of
\* the same conversation id.
C13_OneCallPerConversation ==
    \A a, b \in DOMAIN calls :
        /\ a # b
        /\ calls[a].pc = "post"
        /\ calls[b].pc = "post"
        /\ calls[a].conversation_id = calls[b].conversation_id
        => calls[a].session # calls[b].session

-----------------------------------------------------------------------------
(* The /summary handler: claims C14 to C17                                  *)

\* C14: when the /summary handler has ended, the summary it created is in
\* state complete or failed, whether the stream ended or raised.
C14_SummaryReachesTerminal ==
    (job.pc = "done" /\ job.summary # 0) =>
        summaries[job.summary].state \in {"complete", "failed"}

\* C15: a summary is created in state pending, and its state changes only
\* from pending to complete or failed.
C15_PendingThenTerminalOnce ==
    [][\A i \in 1..Len(summaries') :
          IF i > Len(summaries)
          THEN summaries'[i].state = "pending"
          ELSE summaries'[i].state # summaries[i].state =>
                  /\ summaries[i].state = "pending"
                  /\ summaries'[i].state \in {"complete", "failed"}]_vars

\* C16: the message_count of a new summary is the number of messages
\* recorded in its conversation at that moment.
C16_CountsOwnMessages ==
    [][Len(summaries') > Len(summaries) =>
          LET s == summaries'[Len(summaries')] IN
          s.message_count =
              Cardinality({i \in 1..Len(messages) :
                              messages[i].conversation_id = s.conversation_id})]_vars

\* C17: /summary on a conversation of 5 messages, with a budget that admits
\* the 3 newest lines and not the 4th, and a backend that answers until a
\* stop: the summary has message_count 5, the prompt holds those 3 messages
\* oldest first, and the summary ends in state complete.
C17_FiveMessagesThreeInPrompt ==
    LET line(i) == messages[job.messages[i]].tokens
        basic == SummaryAgent.system_prompt_tokens + SummaryAgent.prompt_response_tokens IN
    (/\ job.pc = "done"
     /\ job.summary # 0
     /\ stream.pc = "done"
     /\ Len(job.messages) = 5
     /\ basic + line(1) + line(2) + line(3) <= SummaryAgent.max_prompt_tokens
     /\ basic + line(1) + line(2) + line(3) + line(4) > SummaryAgent.max_prompt_tokens)
    => /\ summaries[job.summary].message_count = 5
       /\ JobPrompt.chat_log = <<3, 2, 1>>
       /\ summaries[job.summary].state = "complete"

-----------------------------------------------------------------------------
(* Agent.build_prompt: claims C18 to C20                                    *)

RECURSIVE SumOf(_, _)
\* The tokens of the lines of the messages named in s.
SumOf(lines, s) == IF s = <<>> THEN 0 ELSE lines[Head(s)] + SumOf(lines, Tail(s))

\* C18: when build_prompt returns, used_tokens is the tokens of the system
\* prompt, of the cue and of every included line together, and it is at most
\* the token limit.
C18_UsedTokensWithinLimit ==
    build.pc = "returned" =>
        /\ build.result.used_tokens =
              build.system_prompt_tokens + build.prompt_response_tokens
              + SumOf(build.messages, build.result.chat_log)
        /\ build.result.used_tokens <= build.token_limit

\* C18's case: the prompt fills the limit to the last token with some
\* messages in and a message left out that alone would be within the limit.
C18_Witness ==
    /\ build.pc = "returned"
    /\ build.result.used_tokens = build.token_limit
    /\ build.result.chat_log # <<>>
    /\ Len(build.result.chat_log) < Len(build.messages)
    /\ build.messages[Len(build.result.chat_log) + 1] <= build.token_limit

\* The tokens used with the n newest messages in the prompt.
UsedWith(n) ==
    build.system_prompt_tokens + build.prompt_response_tokens
    + SumOf(build.messages, [i \in 1..n |-> i])

\* C19: the included messages are the n newest ones, in the prompt oldest
\* first; the message after them, if there is one, does not fit what is
\* left of the budget, and nothing older than it is included.
C19_NewestRunOnly ==
    build.pc = "returned" =>
        LET n == Len(build.result.chat_log) IN
        /\ build.result.chat_log = [i \in 1..n |-> n + 1 - i]
        /\ n < Len(build.messages) => UsedWith(n) + build.messages[n + 1] > build.token_limit

\* C19's case: a message older than the first one that did not fit would
\* have fitted, and is not in the prompt.
C19_Witness ==
    /\ build.pc = "returned"
    /\ LET n == Len(build.result.chat_log) IN
       \E j \in (n + 2)..Len(build.messages) :
           UsedWith(n) + build.messages[j] <= build.token_limit

-----------------------------------------------------------------------------
(* The slot map: claims C21 to C24                                          *)

\* C21: in calls that follow one another for a conversation id, the slot id
\* stored for the id changes only in the step in which a 200 response for
\* that id arrives with "id_slot" or "slot_id" in its body, and it becomes
\* the "id_slot" if there is one, else the "slot_id"; a response with
\* neither leaves the stored slot id as it was.
C21_SlotChangesOnlyOnReport ==
    [][\A k \in DOMAIN agent.model_conversation_slots \cap DOMAIN agent'.model_conversation_slots :
          agent'.model_conversation_slots[k].slot_id # agent.model_conversation_slots[k].slot_id =>
              \E c \in DOMAIN calls :
                  LET r == calls'[c].last.report IN
                  /\ calls[c].pc = "post"
                  /\ calls[c].conversation_id = k
                  /\ calls'[c].tries = calls[c].tries + 1
                  /\ r.has_id_slot \/ r.has_slot_id
                  /\ agent'.model_conversation_slots[k].slot_id =
                        IF r.has_id_slot THEN r.id_slot ELSE r.slot_id]_vars

\* C21's case: a call has returned a response that had both fields with
\* different slot ids, and the map has the "id_slot".
C21_Witness ==
    \E c \in DOMAIN calls :
        LET l == calls[c] IN
        /\ l.pc = "returned"
        /\ l.requests = 1
        /\ l.params.id_slot # NoSlot
        /\ l.last.report.has_id_slot
        /\ l.last.report.has_slot_id
        /\ l.last.report.id_slot # l.last.report.slot_id
        /\ l.last.report.id_slot # l.params.id_slot
        /\ agent.model_conversation_slots[l.conversation_id].slot_id = l.last.report.id_slot

\* C22: in the step in which a call returns a result, stopped or not, the map
\* gets for the conversation id the session the call used and the slot id of
\* the response (the call's own when the response has none); and an entry
\* leaves the map only by clear_chat, which closes its session.
C22_EntryAfterEveryResult ==
    [][/\ \A c \in DOMAIN calls :
             (calls[c].pc = "post" /\ calls'[c].pc = "returned") =>
                 LET k == calls[c].conversation_id
                     r == calls'[c].last.report IN
                 /\ k \in DOMAIN agent'.model_conversation_slots
                 /\ agent'.model_conversation_slots[k] =
                       [session |-> calls[c].session,
                        slot_id |-> IF r.has_id_slot THEN r.id_slot
                                    ELSE IF r.has_slot_id THEN r.slot_id
                                    ELSE calls[c].slot_id]
       /\ \A k \in DOMAIN agent.model_conversation_slots :
             k \notin DOMAIN agent'.model_conversation_slots =>
                 /\ agent.model_conversation_slots[k].session \in agent'.closed
                 /\ calls' = calls]_vars

\* C22's case: the first call for a conversation id has returned a result
\* that is not stopped, from a response without a slot id, and the map has
\* the entry.
C22_Witness ==
    \E c \in DOMAIN calls :
        LET l == calls[c] IN
        /\ l.pc = "returned"
        /\ ~l.result.stopped
        /\ l.params.id_slot = NoSlot
        /\ ~l.last.report.has_id_slot
        /\ ~l.last.report.has_slot_id
        /\ agent.model_conversation_slots[l.conversation_id] =
              [session |-> l.session, slot_id |-> NoSlot]

\* C23: every request of a call goes out on the same session and with the
\* same slot id, under both names, as the first request of the call.
C23_RetriesKeepSessionAndSlot ==
    \A c \in DOMAIN calls :
        \A i \in 1..Len(calls[c].sent) : calls[c].sent[i] = calls[c].sent[1]

\* C23's case: a 200 response without the result's fields reported another
\* slot id, and the call has sent its next request.
C23_Witness ==
    \E c \in DOMAIN calls :
        LET l == calls[c] IN
        /\ l.pc = "post"
        /\ Len(l.sent) = max_completion_tries
        /\ l.last.kind = "incomplete"
        /\ l.slot_id # l.params.id_slot

\* C24: clear_chat leaves no entry for the conversation id, and changes
\* nothing when there was none; a call that finds no entry for its id opens
\* a session that was never used and sends slot id -1; no call begins on a
\* closed session and the map never has one.
C24_ClearChatForcesNewSession ==
    [][/\ \A k \in SlotKeys :
             ClearChat(k) =>
                 /\ k \notin DOMAIN agent'.model_conversation_slots
                 /\ k \notin DOMAIN agent.model_conversation_slots => agent' = agent
       /\ \A c \in DOMAIN calls :
             (calls[c].pc = "idle" /\ calls'[c].pc # "idle") =>
                 /\ calls'[c].session \notin agent'.closed
                 /\ calls'[c].conversation_id \notin DOMAIN agent.model_conversation_slots =>
                       /\ calls'[c].session \notin 1..agent.opened
                       /\ calls'[c].sent[1].params.id_slot = NoSlot
                       /\ calls'[c].sent[1].params.slot_id = NoSlot
       /\ \A k \in DOMAIN agent'.model_conversation_slots :
             agent'.model_conversation_slots[k].session \notin agent'.closed]_vars

\* C24's case: the one conversation id that had an entry was cleared, and
\* the next call for it is out on a second session with slot id -1.
C24_Witness ==
    \E c \in DOMAIN calls :
        LET l == calls[c] IN
        /\ agent.closed = {1}
        /\ agent.opened = 2
        /\ agent.model_conversation_slots = <<>>
        /\ l.pc = "post"
        /\ l.conversation_id = 1
        /\ l.session = 2
        /\ l.sent[1].params.id_slot = NoSlot

-----------------------------------------------------------------------------
(* Agent.yield_response: claims C25 and C26                                 *)

\* C25: an error raised by Agent.complete ends the drive at once: the drive
\* has made more completion calls than it has emitted chunks only when its
\* last call raised, the error left the generator, and nothing was called or
\* emitted after it.
C25_ErrorEndsStream ==
    stream.calls # Len(stream.emitted) =>
        /\ stream.pc = "raised"
        /\ stream.calls = Len(stream.emitted) + 1

\* C25's case: Agent.complete raised in a later round, after the drive had
\* emitted chunks and still had rounds to go.
C25_Witness ==
    /\ stream.pc = "raised"
    /\ Len(stream.emitted) >= 1
    /\ stream.calls < MaxRounds
    /\ ~stream.emitted[Len(stream.emitted)].stopped

\* C26: the prompt a round sends is the built prompt followed by the chunks
\* of the rounds before it, in order.
C26_PromptAccumulatesChunks ==
    stream.pc = "call" =>
        stream.prompt = BuiltPrompt \o [i \in 1..Len(stream.emitted) |-> stream.emitted[i].content]

\* C26's case: the drive is about to send its third prompt, after two chunks
\* of which one had text.
C26_Witness ==
    /\ stream.pc = "call"
    /\ Len(stream.emitted) = 2
    /\ stream.calls = 2
    /\ stream.emitted[1].content = "text"

-----------------------------------------------------------------------------
(* The /summary handler: claims C27 to C29                                  *)

\* C27: when the /summary handler has ended, the text of its summary is the
\* chunks emitted before the stream ended, in order; and when the stream
\* raised, the summary is in state failed with that text.
C27_PartialTextMarkedFailed ==
    (job.pc = "done" /\ job.summary # 0) =>
        /\ summaries[job.summary].text = JobText
        /\ stream.pc = "raised" => summaries[job.summary].state = "failed"

\* C28: the messages the /summary handler reads for the prompt builder are
\* min(message_count, n) messages of its conversation, n being the number
\* the conversation holds at the read, none of them older than a message
\* left out, and in the order newest first.
C28_ReadsMostRecentNewestFirst ==
    [][(job.pc # "read" /\ job'.pc = "read") =>
          LET own == {i \in 1..Len(messages) : messages[i].conversation_id = job'.conversation_id}
              n == Cardinality(own)
              count == summaries'[job'.summary].message_count
              read == job'.messages
              fed == {read[i] : i \in 1..Len(read)} IN
          /\ Len(read) = IF count < n THEN count ELSE n
          /\ Cardinality(fed) = Len(read)
          /\ fed \subseteq own
          /\ \A i \in fed, j \in own \ fed : messages[i].timestamp >= messages[j].timestamp
          /\ \A i, j \in 1..Len(read) :
                i < j => messages[read[i]].timestamp >= messages[read[j]].timestamp]_vars

\* C29: a summary is created only of a conversation that is the active
\* conversation of its chat when it is created.
C29_CreatesOnlyForActive ==
    [][Len(summaries') > Len(summaries) =>
          LET s == summaries'[Len(summaries')] IN
          s.conversation_id \in
              ConversationActive(conversations, conversations[s.conversation_id].chat_id)]_vars

-----------------------------------------------------------------------------
(* Chats are independent: claim C30                                         *)

\* The rows of a chat, in the order of their ids.
OfChat(convs, chat_id) == SelectSeq(convs, LAMBDA row : row.chat_id = chat_id)

\* The place among the rows of its chat of row i, 0 for no row of the chat.
PlaceOf(convs, chat_id, i) ==
    IF i \in DOMAIN convs /\ convs[i].chat_id = chat_id
    THEN Cardinality({j \in 1..i : convs[j].chat_id = chat_id})
    ELSE 0

\* What an operation for a chat makes of table convs (r) is what it makes of
\* the chat's rows alone (q), and no row of another chat changes.
SameAsAlone(convs, chat_id, r, q) ==
    /\ r.result.tag = q.result.tag
    /\ PlaceOf(r.convs, chat_id, r.result.id) = q.result.id
    /\ OfChat(r.convs, chat_id) = q.convs
    /\ \A i \in DOMAIN convs : convs[i].chat_id # chat_id => r.convs[i] = convs[i]
    /\ \A i \in DOMAIN r.convs \ DOMAIN convs : r.convs[i].chat_id = chat_id

\* C30: Conversation.create, enter and update_state for a chat give the same
\* result and the same rows of that chat as on a table that holds the rows
\* of that chat only, and change no row of another chat.
C30_ChatsIndependent ==
    \A chat_id \in ChatIds :
        LET own == OfChat(conversations, chat_id) IN
        /\ \A agenda \in Agendas :
              SameAsAlone(conversations, chat_id,
                          ConversationCreate(conversations, chat_id, agenda),
                          ConversationCreate(own, chat_id, agenda))
        /\ \A conversation_id \in ConversationIds :
              SameAsAlone(conversations, chat_id,
                          ConversationEnter(conversations, chat_id, conversation_id),
                          ConversationEnter(own, chat_id,
                                            PlaceOf(conversations, chat_id, conversation_id)))
        /\ \A state \in ConversationState :
              \A first \in IF ConversationActive(conversations, chat_id) = {}
                            THEN {0} ELSE ConversationActive(conversations, chat_id) :
                  SameAsAlone(conversations, chat_id,
                              ConversationUpdateState(conversations, chat_id, state, first),
                              ConversationUpdateState(own, chat_id, state,
                                                      PlaceOf(conversations, chat_id, first)))

\* C30's case: a conversation was created in chat1 while chat2 had an
\* active one.
C30_Witness ==
    /\ ret.op = "create"
    /\ ret.chat_id = "chat1"
    /\ ret.result.tag = "conversation"
    /\ \E i \in DOMAIN conversations :
          /\ i < ret.result.id
          /\ conversations[i].chat_id = "chat2"
          /\ conversations[i].state = "active"

-----------------------------------------------------------------------------
(* Agent.complete, its requests and the slot map: claims C31 to C36         *)

\* C31: a step of an Agent.complete call for one conversation id leaves the
\* entry of every other conversation id in the map, as it was, however the
\* calls of two callers for different ids interleave.
C31_OtherEntriesUntouched ==
    [][\A c \in DOMAIN calls :
          calls'[c] # calls[c] =>
              \A k \in DOMAIN agent.model_conversation_slots :
                  k \notin {calls[c].conversation_id, calls'[c].conversation_id} =>
                      /\ k \in DOMAIN agent'.model_conversation_slots
                      /\ agent'.model_conversation_slots[k] = agent.model_conversation_slots[k]]_vars

\* C31's case: one caller's call for an id has returned and written its
\* entry while the other caller's call for another id, which has an entry
\* of its own, is in flight.
C31_Witness ==
    \E c \in DOMAIN calls, d \in DOMAIN calls :
        /\ calls[c].pc = "returned"
        /\ calls[d].pc = "post"
        /\ calls[c].conversation_id # calls[d].conversation_id
        /\ calls[c].conversation_id \in DOMAIN agent.model_conversation_slots
        /\ calls[d].conversation_id \in DOMAIN agent.model_conversation_slots
        /\ agent.model_conversation_slots[calls[c].conversation_id].session = calls[c].session
        /\ agent.model_conversation_slots[calls[d].conversation_id].session = calls[d].session

\* C32: Message.record of a message whose id no message of the same
\* conversation has does not raise and adds the row, also when a message of
\* another conversation has that id.
C32_RecordsIdNewInConversation ==
    [][(/\ ret'.op = "record"
        /\ <<messages, ret>>' # <<messages, ret>>
        /\ ~\E i \in 1..Len(messages) :
              /\ messages[i].id = ret'.message_id
              /\ messages[i].conversation_id = ret'.conversation_id)
       => /\ ret'.result.tag = "message"
          /\ Len(messages') = Len(messages) + 1
          /\ messages'[Len(messages')].id = ret'.message_id
          /\ messages'[Len(messages')].conversation_id = ret'.conversation_id]_vars

\* C33: the first request of a call carries, under "id_slot" and under
\* "slot_id", the slot id the map has for the conversation id when the call
\* begins, -1 when it has none, and cache_prompt true; every later request
\* of the call carries the same.
C33_RequestsCarryStoredSlot ==
    [][\A c \in DOMAIN calls :
          LET k == calls'[c].conversation_id
              slots == agent.model_conversation_slots
              stored == IF k \in DOMAIN slots THEN slots[k].slot_id ELSE NoSlot IN
          \A i \in 1..Len(calls'[c].sent) :
              calls'[c].sent[i].params =
                  IF calls[c].pc = "idle"
                  THEN [id_slot |-> stored, slot_id |-> stored, cache_prompt |-> TRUE]
                  ELSE calls[c].sent[1].params]_vars

\* C33's case: a call that found a slot id of the backend in the map has
\* sent its second request.
C33_Witness ==
    \E c \in DOMAIN calls :
        LET l == calls[c] IN
        /\ l.pc = "post"
        /\ l.known
        /\ Len(l.sent) = 2
        /\ l.sent[2].params.id_slot \in SlotIds
        /\ l.sent[2].params.slot_id \in SlotIds

\* C34: the result a call returns has stopped true exactly when the body
\* has "stopped_eos" or "stopped_word" true, and has the body's content,
\* whether or not the token count of the content is over the cap.
C34_StoppedIffBackendStopped ==
    \A c \in DOMAIN calls :
        calls[c].pc = "returned" =>
            /\ calls[c].result.stopped <=>
                   (calls[c].last.stopped_eos \/ calls[c].last.stopped_word)
            /\ calls[c].result.content = calls[c].last.content

\* C34's case: a completion over the cap was returned, stopped by a stop
\* word and not by the end of the sequence.
C34_Witness ==
    \E c \in DOMAIN calls :
        LET l == calls[c] IN
        /\ l.pc = "returned"
        /\ l.warned
        /\ TokenCount(l.result.content) > agent.max_completion_tokens
        /\ l.last.stopped_word
        /\ ~l.last.stopped_eos
        /\ l.result.stopped

\* C35: when a call has raised, and clear_chat has not closed its session
\* meanwhile, the map has for the conversation id what it had when the call
\* began: the same entry, or none.
C35_FailedCallLeavesMap ==
    \A c \in DOMAIN calls :
        LET l == calls[c]
            slots == agent.model_conversation_slots IN
        (l.pc = "raised" /\ l.session \notin agent.closed) =>
            IF l.known
            THEN /\ l.conversation_id \in DOMAIN slots
                 /\ slots[l.conversation_id] =
                       [session |-> l.session, slot_id |-> l.params.id_slot]
            ELSE l.conversation_id \notin DOMAIN slots

\* C36: every session that was opened is closed, or is in the map, or is
\* the session of a call that has not returned or raised yet.
C36_NoSessionLeftOpen ==
    \A session \in 1..agent.opened :
        \/ session \in agent.closed
        \/ \E k \in DOMAIN agent.model_conversation_slots :
              agent.model_conversation_slots[k].session = session
        \/ \E c \in DOMAIN calls : calls[c].pc = "post" /\ calls[c].session = session

-----------------------------------------------------------------------------
(* Content ids, messages, /push and /api/propose: claims C37 to C40         *)

\* C37: in every state, a conversation that has a content id is in state
\* complete.
C37_HashImpliesComplete ==
    \A i \in DOMAIN conversations :
        conversations[i].ipfs_hash # NoHash => conversations[i].state = "complete"

\* C39: when a handler that has flushed its change ends without its
\* confirmation, /push as /new, /enter, /exit, /cancel and /complete, the
\* committed rows are as before: the content id is not persisted.
C39_FailedHandlerPersistsNothing ==
    [][\A h \in DOMAIN handlers :
          (/\ handlers[h].pc = "commit"
           /\ handlers'[h].pc = "done"
           /\ handlers'[h].reply # "ok")
          => conversations' = conversations]_vars

\* C38: a message the text handler records goes to a conversation of its
\* chat that is active at that moment, and the handler of a message that
\* comes while its chat has no active conversation changes nothing.
C38_RecordedInActiveConversation ==
    [][\A chat_id \in ChatIds, message_id \in {Len(messages) + 1},
         tokens \in SummaryLineTokens,
         date \in {LastDate(messages), LastDate(messages) + 1} :
          TextMessage(chat_id, message_id, tokens, date) =>
              IF \E i \in DOMAIN conversations :
                    conversations[i].chat_id = chat_id /\ conversations[i].state = "active"
              THEN messages' # messages =>
                      LET row == messages'[Len(messages')] IN
                      /\ Len(messages') = Len(messages) + 1
                      /\ row.id = message_id
                      /\ row.conversation_id \in DOMAIN conversations
                      /\ conversations[row.conversation_id].chat_id = chat_id
                      /\ conversations[row.conversation_id].state = "active"
              ELSE UNCHANGED vars]_vars

\* C38's case: the handler recorded a message in conversation 1 while it
\* was active, conversation 1 has ended since, and the last message was
\* recorded in conversation 2, which is active.
C38_Witness ==
    /\ conversations[1].state # "active"
    /\ conversations[2].state = "active"
    /\ \E i \in 1..Len(messages) : messages[i].conversation_id = 1
    /\ \E i \in 1..Len(messages) : messages[i].conversation_id = 2
    /\ messages[Len(messages)].conversation_id = 2

\* C40: the key of a proposal in flight is not the id of a persisted
\* conversation and not the key of another proposal in flight.
C40_ProposalKeyIsItsOwn ==
    \A c \in DOMAIN calls :
        calls[c].pc # "idle" =>
            /\ calls[c].conversation_id \notin DOMAIN conversations
            /\ \A d \in DOMAIN calls \ {c} :
                  calls[d].pc # "idle" =>
                      calls[d].conversation_id # calls[c].conversation_id

====
